---- MODULE Spec2Model ----
(***************************************************************************)
(* Model of src/app.py: the IWBF player-forms generator.                   *)
(*                                                                         *)
(*  - fill_and_get_pdf_bytes (lines 44-104) as the operator Fill, on an    *)
(*    abstract PDF document (form root, field values, appearance streams,  *)
(*    NeedAppearances flag);                                               *)
(*  - the generation block (lines 128-244) as a state machine, one action  *)
(*    per step of the script: loading, sheet validation, the skip branch,  *)
(*    the worksheet half and the assessment half of a row, the summary.    *)
(*                                                                         *)
(* Library behaviour the script relies on is modelled as the library       *)
(* behaves: pandas reads an empty cell as NaN, str(NaN) is "nan",          *)
(* st.progress raises StreamlitAPIException (an Exception) for a float     *)
(* outside [0.0, 1.0], st.stop raises a BaseException that no              *)
(* `except Exception` catches, zipfile.writestr appends an entry.          *)
(***************************************************************************)
EXTENDS Integers, Sequences, FiniteSets, TLC

\* ------------------------------------------------------------------ bounds
MaxSheets == 2      \* sheets in the uploaded workbook
MaxRows == 3        \* rows in the workbook, over all sheets
MaxFailures == 6    \* length of the failure list in the specification of the summary

\* ------------------------------------------------------------ cell values
\* A spreadsheet cell as pandas hands it to the script.
\*   t = "nan"  : an empty cell (NaN)
\*   t = "str"  : a text cell with text s
\*   t = "int"  : an integer cell with value p1
\*   t = "ts"   : a date cell, Timestamp(year y, month p2, day p1)
\*   t = "text" : a text cell that reads "p1/p2/y" (two digits / two digits / year)
NaN == [t |-> "nan", s |-> "", p1 |-> 0, p2 |-> 0, y |-> 0]
StrCell(s) == [t |-> "str", s |-> s, p1 |-> 0, p2 |-> 0, y |-> 0]
IntCell(n) == [t |-> "int", s |-> "", p1 |-> n, p2 |-> 0, y |-> 0]
TsCell(d, m, y) == [t |-> "ts", s |-> "", p1 |-> d, p2 |-> m, y |-> y]
TextDate(a, b, y) == [t |-> "text", s |-> "", p1 |-> a, p2 |-> b, y |-> y]

Digit == <<"0", "1", "2", "3", "4", "5", "6", "7", "8", "9">>
D1(n) == Digit[(n % 10) + 1]
D2(n) == D1(n \div 10) \o D1(n)
D4(n) == D2(n \div 100) \o D2(n % 100)
IntStr(n) == IF n < 10 THEN D1(n) ELSE IF n < 100 THEN D2(n) ELSE D4(n)

\* pd.isna(value)
isna(c) == c.t = "nan"

\* str(value)
str(c) ==
    CASE c.t = "nan"  -> "nan"
      [] c.t = "str"  -> c.s
      [] c.t = "int"  -> IntStr(c.p1)
      [] c.t = "ts"   -> D4(c.y) \o "-" \o D2(c.p2) \o "-" \o D2(c.p1) \o " 00:00:00"
      [] c.t = "text" -> D2(c.p1) \o "/" \o D2(c.p2) \o "/" \o D4(c.y)

\* strftime("%d-%m-%Y") of a date
strftime(d, m, y) == D2(d) \o "-" \o D2(m) \o "-" \o D4(y)

\* format_date: pd.to_datetime(date).strftime("%d-%m-%Y"), str(date) when
\* that raises.  pd.to_datetime reads "a/b/y" month first; when a cannot be
\* a month it falls back to day first.  NaT has no strftime; free text does
\* not parse.
format_date(c) ==
    CASE c.t = "ts" -> strftime(c.p1, c.p2, c.y)
      [] c.t = "text" /\ c.p1 \in 1..12 /\ c.p2 \in 1..31 -> strftime(c.p2, c.p1, c.y)
      [] c.t = "text" /\ c.p1 \in 13..31 /\ c.p2 \in 1..12 -> strftime(c.p1, c.p2, c.y)
      [] OTHER -> str(c)

\* ------------------------------------------------------------ PDF documents
\* A pikepdf.Pdf, as far as the script looks at it:
\*   AcroForm        : '/AcroForm' in pdf.root
\*   NeedAppearances : pdf.root.AcroForm.NeedAppearances
\*   V               : field name -> value of the field (/V)
\*   AP              : the fields that carry an appearance stream (/AP)
Pdf(acro, need, v, ap) ==
    [AcroForm |-> acro, NeedAppearances |-> need, V |-> v, AP |-> ap]

WorksheetKeys ==
    {"number", "proposed-class", "name", "country", "date", "competition",
     "xnumber", "xproposed-class", "xname", "xcountry", "xdate", "xcompetition"}
AssessmentKeys == {"name", "country", "dob"}

\* The value a template field has before any fill.
Blank == "(template)"

FormOf(names, need) == Pdf(TRUE, need, [f \in names |-> Blank], names)
NoForm == Pdf(FALSE, FALSE, << >>, {})

\* pdf_template_obj.save(temp_buffer): the bytes of a document.
save(pdf) == [bytes |-> pdf]
\* pikepdf.Pdf.open(buffer): the document the bytes hold.
open(buf) == buf.bytes


\* ------------------------------------------------- fill_and_get_pdf_bytes
\* field.V = pikepdf.String(str(value)) for a field the form has; a key the
\* form lacks is passed over (the warning of lines 84-85 is commented out).
\* The field's /AP is left as it is (line 79 is commented out).
\* SetField without the test of line 71: the value is written under the
\* key whether or not the form has such a field.
SetFieldUnchecked(pdf, field_name, value) ==
    [pdf EXCEPT !.V = [f \in DOMAIN pdf.V \cup {field_name} |->
                          IF f = field_name THEN str(value) ELSE pdf.V[f]]]

\* SetField with line 79 (field.AP = None) in force: the written field
\* loses its appearance stream.
SetFieldDropAP(pdf, field_name, value) ==
    IF field_name \in DOMAIN pdf.V
    THEN [pdf EXCEPT !.V[field_name] = str(value), !.AP = @ \ {field_name}]
    ELSE pdf

SetField(pdf, field_name, value) ==
    IF field_name \in DOMAIN pdf.V
    THEN [pdf EXCEPT !.V[field_name] = str(value)]
    ELSE pdf

\* FillFields returning out of the loop after the first key.
FillFirstKeyOnly(pdf, field_values, keys) ==
    IF keys = {} THEN pdf
    ELSE LET k == CHOOSE x \in keys : TRUE
         IN  IF k \in DOMAIN pdf.V THEN [pdf EXCEPT !.V[k] = str(field_values[k])] ELSE pdf

\* for field_name, value in field_values.items(): ...
\* Each turn of the loop works on the document as the turn before left it
\* (changed) and on the keys still to come (rest).
RECURSIVE FillFields(_, _, _)
FillFields(pdf, field_values, keys) ==
    IF keys = {} THEN pdf
    ELSE LET k == CHOOSE x \in keys : TRUE
         IN  CHOOSE done \in {FillFields(changed, field_values, rest) :
                                 changed \in {SetField(pdf, k, field_values[k])},
                                 rest \in {keys \ {k}}} : TRUE

\* SetNeedAppearances setting the flag only once a field holds a value other
\* than the template's.
SetNeedAppearancesIfFilled(pdf) ==
    IF \E f \in DOMAIN pdf.V : pdf.V[f] # Blank
    THEN [pdf EXCEPT !.AcroForm = TRUE, !.NeedAppearances = TRUE]
    ELSE pdf

\* pdf.root.AcroForm.NeedAppearances = pikepdf.Boolean(True), creating the
\* form root when there is none.
SetNeedAppearances(pdf) ==
    [pdf EXCEPT !.AcroForm = TRUE, !.NeedAppearances = TRUE]

\* The st.warning calls of a fill: none, both are commented out.
FillWarnings(pdf, field_values) == << >>

\* Fill working on pdf_template_obj itself instead of a copy of it.
FillInPlace(pdf_template_obj, field_values, io_error) ==
    LET filled == SetNeedAppearances(
                      FillFields(pdf_template_obj, field_values, DOMAIN field_values))
    IN  IF io_error
        THEN [raised |-> TRUE, cause |-> "io", template |-> pdf_template_obj,
              out |-> save(NoForm), warnings |-> << >>]
        ELSE IF ~pdf_template_obj.AcroForm
        THEN [raised |-> TRUE, cause |-> "no AcroForm", template |-> pdf_template_obj,
              out |-> save(NoForm), warnings |-> << >>]
        ELSE [raised |-> FALSE, cause |-> "", template |-> filled,
              out |-> save(filled), warnings |-> << >>]

\* fill_and_get_pdf_bytes(pdf_template_obj, field_values).  io_error is the
\* environment: pikepdf failing to save or to reopen the document.
\*   raised   : the call raised "Failed to fill PDF: ..."
\*   cause    : what it raised for
\*   template : pdf_template_obj after the call
\*   out      : the returned bytes (when it did not raise)
\*   warnings : the soft warnings it reported
Fill(pdf_template_obj, field_values, io_error) ==
    LET pdf == open(save(pdf_template_obj))
        filled == SetNeedAppearances(FillFields(pdf, field_values, DOMAIN field_values))
    IN  IF io_error
        THEN [raised |-> TRUE, cause |-> "io", template |-> pdf_template_obj,
              out |-> save(NoForm), warnings |-> << >>]
        ELSE IF ~pdf.AcroForm
        THEN [raised |-> TRUE, cause |-> "no AcroForm", template |-> pdf_template_obj,
              out |-> save(NoForm), warnings |-> << >>]
        ELSE [raised |-> FALSE, cause |-> "", template |-> pdf_template_obj,
              out |-> save(filled), warnings |-> FillWarnings(pdf, field_values)]


\* ------------------------------------------------------------- the workbook
required_columns ==
    {"number", "proposed-class", "name", "country", "date", "competition", "dob"}

\* HasRequiredColumns with the check narrowed to the two columns the skip
\* test reads.
HasNameAndNumber(df) == \A col \in {"name", "number"} : col \in df.columns

\* all(col in df.columns for col in required_columns)
HasRequiredColumns(df) == \A col \in required_columns : col \in df.columns

\* row.get(col, default)
get(row, col, default) == IF col \in DOMAIN row THEN row[col] ELSE default

RowOf(number, name, country, date, dob) ==
    [col \in required_columns |->
        CASE col = "number"         -> number
          [] col = "proposed-class" -> StrCell("1.0")
          [] col = "name"           -> name
          [] col = "country"        -> country
          [] col = "date"           -> date
          [] col = "competition"    -> StrCell("World Cup")
          [] col = "dob"            -> dob]

Jane == RowOf(IntCell(4), StrCell("Jane Doe"), StrCell("USA"),
              TextDate(1, 2, 2024), TextDate(5, 10, 1995))
NoName == RowOf(IntCell(9), NaN, StrCell("BRA"), TsCell(3, 4, 2024), NaN)
NoNumber == RowOf(NaN, StrCell("Ann Poe"), StrCell("GBR"),
                  TsCell(3, 4, 2024), StrCell("unknown"))
RowKinds == {Jane, NoName, NoNumber}

SheetNames == <<"Team A", "Team B", "Team C", "Team D">>

\* The sequences over S of length at most n.
SeqsUpTo(S, n) == UNION {[1..k -> S] : k \in 0..n}

RECURSIVE SumRows(_, _)
SumRows(sheets, n) == IF n = 0 THEN 0 ELSE Len(sheets[n].rows) + SumRows(sheets, n - 1)
\* The number of rows of the first n sheets.
RowsBefore(sheets, n) == SumRows(sheets, n)
TotalRows(sheets) == SumRows(sheets, Len(sheets))

\* A sheet as pd.read_excel(sheet_name=None) returns it: its name, its
\* columns and its rows, each row holding the sheet's columns.
SheetOf(i, missing, rows) ==
    [sheet_name |-> SheetNames[i],
     columns    |-> required_columns \ missing,
     rows       |-> [r \in DOMAIN rows |->
                        [col \in required_columns \ missing |-> rows[r][col]]]]

\* The ways to cut n rows into k consecutive sheets: ends[i] is the last row
\* of sheet i.
Cuts(n, k) ==
    {ends \in [1..k -> 0..n] :
        /\ ends[k] = n
        /\ \A i \in 1..(k - 1) : ends[i] <= ends[i + 1]}

RowsOfSheet(flat, ends, i) ==
    SubSeq(flat, (IF i = 1 THEN 0 ELSE ends[i - 1]) + 1, ends[i])

\* The workbooks the model uploads: 1..MaxSheets sheets with at most MaxRows
\* rows in all, at most one sheet lacking a required column.
Workbooks ==
    UNION {
        {[i \in 1..k |->
            SheetOf(i, IF i = bad THEN {"dob"} ELSE {}, RowsOfSheet(flat, ends, i))] :
            bad \in 0..k, ends \in Cuts(Len(flat), k)} :
        k \in 1..MaxSheets, flat \in SeqsUpTo(RowKinds, MaxRows)}

\* The pairs of template files (worksheet, assessment) the model installs.
signature == "signature"
TemplatePairs ==
    {<<FormOf(WorksheetKeys \cup {signature}, FALSE),
       FormOf(AssessmentKeys \cup {signature}, FALSE)>>,
     <<FormOf({"name", "number", "date", signature}, TRUE),
       FormOf({"name", signature}, FALSE)>>,
     <<FormOf(WorksheetKeys, FALSE), NoForm>>}


\* ------------------------------------------------------------------- state
VARIABLES
    template_files,           \* the two template PDFs next to the script
    uploaded_file,            \* the upload: readable or not, and its sheets
    worksheet_template_obj,   \* cached pikepdf.Pdf (line 108)
    assessment_template_obj,  \* cached pikepdf.Pdf (line 109)
    state,                    \* where the run is
    planilhas,                \* the sheets read from the upload
    total_pdfs_to_generate,
    generated_pdfs_count,
    failed_items,
    zip_file,                 \* the entries written to the archive, in order
    sheet_i,                  \* position of the sheet loop (1-based)
    row_i,                    \* position of the row loop (1-based)
    doc,                      \* which document of the row comes next
    progress_bar,             \* the last value given to progress_bar.progress
    st_error,                 \* the st.error the run ended with, if any
    st_warning,               \* the soft warnings shown (st.warning of a fill)
    summary,                  \* the result summary shown
    download_button,          \* the archive is offered for download
    last_fill                 \* the last call of fill_and_get_pdf_bytes

vars == <<template_files, uploaded_file, worksheet_template_obj,
          assessment_template_obj, state, planilhas, total_pdfs_to_generate,
          generated_pdfs_count, failed_items, zip_file, sheet_i, row_i, doc,
          progress_bar, st_error, st_warning, summary, download_button, last_fill>>

NoSummary == [shown |-> FALSE, success |-> FALSE, count |-> 0,
              messages |-> << >>, overflow |-> 0]
NoFill == [called |-> FALSE, template |-> NoForm, field_values |-> << >>,
           result |-> Fill(NoForm, << >>, TRUE)]

\* The state when the page is up: templates loaded (lines 108-109), a file
\* chosen, the button not yet pressed.
InitCommon ==
    /\ template_files \in TemplatePairs
    /\ worksheet_template_obj = template_files[1]
    /\ assessment_template_obj = template_files[2]
    /\ planilhas = << >>
    /\ total_pdfs_to_generate = 0
    /\ generated_pdfs_count = 0
    /\ failed_items = << >>
    /\ zip_file = << >>
    /\ sheet_i = 0
    /\ row_i = 0
    /\ doc = "worksheet"
    /\ progress_bar = [num |-> 0, den |-> 1]
    /\ st_error = "none"
    /\ st_warning = << >>
    /\ summary = NoSummary
    /\ download_button = FALSE
    /\ last_fill = NoFill

Init ==
    /\ InitCommon
    /\ state = "Idle"
    /\ uploaded_file \in
          {[readable |-> FALSE, sheets |-> << >>]}
          \cup {[readable |-> TRUE, sheets |-> w] : w \in Workbooks}


\* ------------------------------------------------------ the generation run
sheet == planilhas[sheet_i]
row == planilhas[sheet_i].rows[row_i]
sheet_name == sheet.sheet_name
\* lines 161-162
player_name == str(get(row, "name", StrCell("N/A")))
player_number == str(get(row, "number", StrCell("N/A")))

\* lines 175-188
field_values_worksheet ==
    [k \in WorksheetKeys |->
        CASE k \in {"number", "xnumber"} -> StrCell(player_number)
          [] k \in {"proposed-class", "xproposed-class"} ->
                StrCell(str(get(row, "proposed-class", StrCell(""))))
          [] k \in {"name", "xname"} -> StrCell(player_name)
          [] k \in {"country", "xcountry"} -> StrCell(str(get(row, "country", StrCell(""))))
          [] k \in {"date", "xdate"} -> StrCell(format_date(get(row, "date", StrCell(""))))
          [] k \in {"competition", "xcompetition"} ->
                StrCell(str(get(row, "competition", StrCell(""))))]

\* lines 199-203
field_values_assessment ==
    [k \in AssessmentKeys |->
        CASE k = "name" -> StrCell(player_name)
          [] k = "country" -> StrCell(str(get(row, "country", StrCell(""))))
          [] k = "dob" -> StrCell(format_date(get(row, "dob", StrCell(""))))]

\* The names of the two archive entries of a row (lines 193 and 208).
WorksheetPath(sh, name) ==
    sh \o "/Stages 2C and 3/" \o name \o "-Worksheet-Stages-2C-and-3.pdf"
AssessmentPath(sh, name) ==
    sh \o "/Stages 2AB/" \o name \o "-Assessment-Form-Stages-2AB.pdf"

\* writestr keyed by name: an entry of the same name is replaced.
writestrByName(zip, name, data) ==
    IF \E i \in DOMAIN zip : zip[i].name = name
    THEN [i \in DOMAIN zip |->
             IF zip[i].name = name THEN [name |-> name, data |-> data] ELSE zip[i]]
    ELSE Append(zip, [name |-> name, data |-> data])

\* zip_file.writestr(name, data) on an archive opened in mode 'a': one more
\* entry at the end, whatever names the archive already holds.
writestr(zip, name, data) == Append(zip, [name |-> name, data |-> data])

\* The two messages of the failure list (lines 166 and 214).
SkipMsg(index, name, sh) ==
    [kind |-> "skip", row |-> index + 2, name |-> name, sheet |-> sh, cause |-> "missing"]
ErrorMsg(name, sh, cause) ==
    [kind |-> "error", row |-> 0, name |-> name, sheet |-> sh, cause |-> cause]

\* progress_bar.progress(count / total) raises StreamlitAPIException when
\* the fraction is above 1.0.
ProgressRaises(count, total) == count > total

\* The result summary of lines 225-232.
Min(a, b) == IF a < b THEN a ELSE b

\* Summary with the preview cut one message short (failed_items[:4]).
SummaryShortPreview(items) ==
    [shown |-> TRUE,
     success |-> (items = << >>),
     count |-> Len(items),
     messages |-> SubSeq(items, 1, Min(4, Len(items))),
     overflow |-> IF Len(items) > 5 THEN Len(items) - 5 ELSE 0]

Summary(items) ==
    [shown |-> TRUE,
     success |-> (items = << >>),
     count |-> Len(items),
     messages |-> SubSeq(items, 1, Min(5, Len(items))),
     overflow |-> IF Len(items) > 5 THEN Len(items) - 5 ELSE 0]

\* The sheet loop goes on (line 153): the next sheet, or the end of the
\* with block.
NextSheet ==
    IF sheet_i < Len(planilhas)
    THEN state' = "ValidatingSheet" /\ sheet_i' = sheet_i + 1 /\ row_i' = 0
    ELSE state' = "Archiving" /\ UNCHANGED <<sheet_i, row_i>>

\* NextRow stepping over the row that follows the one in hand.
NextRowSkipsOne ==
    IF row_i + 1 < Len(sheet.rows)
    THEN state' = "ProcessingRow" /\ row_i' = row_i + 2 /\ UNCHANGED sheet_i
    ELSE NextSheet

\* The row loop goes on (line 160).
NextRow ==
    IF row_i < Len(sheet.rows)
    THEN state' = "ProcessingRow" /\ row_i' = row_i + 1 /\ UNCHANGED sheet_i
    ELSE NextSheet

\* The outer handler (lines 242-244): the run ends with an error, nothing
\* is offered.
Unexpected ==
    /\ state' = "Failed"
    /\ st_error' = "unexpected"
    /\ UNCHANGED <<sheet_i, row_i, progress_bar>>

\* A progress report that is accepted, and on to the next row.
Report(count) ==
    /\ progress_bar' = [num |-> count, den |-> total_pdfs_to_generate]
    /\ UNCHANGED st_error
    /\ NextRow

\* The per-row handler (lines 213-218), entered with the counter at count
\* and the archive at zip.
RowExcept(count, zip, cause) ==
    /\ failed_items' = Append(failed_items, ErrorMsg(player_name, sheet_name, cause))
    /\ generated_pdfs_count' = count + 2
    /\ zip_file' = zip
    /\ doc' = "worksheet"
    /\ IF ProgressRaises(count + 2, total_pdfs_to_generate)
       THEN Unexpected
       ELSE Report(count + 2)

\* "Generate Player Forms" pressed (lines 128-152): read the workbook and
\* compute the total.
Load ==
    /\ state = "Idle"
    /\ IF uploaded_file.readable
       THEN /\ planilhas' = uploaded_file.sheets
            /\ total_pdfs_to_generate' = 2 * TotalRows(uploaded_file.sheets)
            /\ state' = "ValidatingSheet"
            /\ sheet_i' = 1
            /\ UNCHANGED st_error
       ELSE /\ state' = "Failed"
            /\ st_error' = "unexpected"
            /\ UNCHANGED <<planilhas, total_pdfs_to_generate, sheet_i>>
    /\ UNCHANGED <<template_files, uploaded_file, worksheet_template_obj,
                   assessment_template_obj, generated_pdfs_count, failed_items,
                   zip_file, row_i, doc, progress_bar, st_warning, summary,
                   download_button, last_fill>>

\* The head of the sheet loop (lines 153-160): st.error and st.stop when a
\* required column is missing, else the first row.
ValidateSheet ==
    /\ state = "ValidatingSheet"
    /\ IF ~HasRequiredColumns(sheet)
       THEN /\ state' = "Failed"
            /\ st_error' = "missing columns"
            /\ UNCHANGED <<sheet_i, row_i>>
       ELSE /\ UNCHANGED st_error
            /\ IF Len(sheet.rows) = 0
               THEN NextSheet
               ELSE state' = "ProcessingRow" /\ row_i' = 1 /\ UNCHANGED sheet_i
    /\ UNCHANGED <<template_files, uploaded_file, worksheet_template_obj,
                   assessment_template_obj, planilhas, total_pdfs_to_generate,
                   generated_pdfs_count, failed_items, zip_file, doc,
                   progress_bar, st_warning, summary, download_button, last_fill>>

\* line 165
Skips(r) == isna(r["name"]) \/ isna(r["number"])

\* The skip branch (lines 165-171).
SkipRow ==
    /\ state = "ProcessingRow"
    /\ doc = "worksheet"
    /\ Skips(row)
    /\ failed_items' = Append(failed_items, SkipMsg(row_i - 1, player_name, sheet_name))
    /\ generated_pdfs_count' = generated_pdfs_count + 2
    /\ IF ProgressRaises(generated_pdfs_count + 2, total_pdfs_to_generate)
       THEN Unexpected
       ELSE Report(generated_pdfs_count + 2)
    /\ UNCHANGED <<template_files, uploaded_file, worksheet_template_obj,
                   assessment_template_obj, planilhas, total_pdfs_to_generate,
                   zip_file, doc, st_warning, summary, download_button, last_fill>>

\* The worksheet half of a row (lines 173-196, and 213-218 when it raises).
\* io_error and write_error are the environment: the fill, or writestr,
\* failing.
FillWorksheet(io_error, write_error) ==
    /\ state = "ProcessingRow"
    /\ doc = "worksheet"
    /\ ~Skips(row)
    /\ LET r == Fill(worksheet_template_obj, field_values_worksheet, io_error)
           written == writestr(zip_file, WorksheetPath(sheet_name, player_name), r.out)
           c == generated_pdfs_count + 1
       IN  /\ worksheet_template_obj' = r.template
           /\ last_fill' = [called |-> TRUE, template |-> worksheet_template_obj,
                            field_values |-> field_values_worksheet, result |-> r]
           /\ st_warning' = st_warning \o r.warnings
           /\ IF r.raised THEN RowExcept(generated_pdfs_count, zip_file, r.cause)
              ELSE IF write_error THEN RowExcept(generated_pdfs_count, zip_file, "writestr")
              ELSE IF ProgressRaises(c, total_pdfs_to_generate)
              THEN RowExcept(c, written, "progress")
              ELSE /\ zip_file' = written
                   /\ generated_pdfs_count' = c
                   /\ progress_bar' = [num |-> c, den |-> total_pdfs_to_generate]
                   /\ doc' = "assessment"
                   /\ UNCHANGED <<failed_items, state, sheet_i, row_i, st_error>>
    /\ UNCHANGED <<template_files, uploaded_file, assessment_template_obj,
                   planilhas, total_pdfs_to_generate, summary, download_button>>

\* The assessment half of a row (lines 198-211, and 213-218 when it raises).
FillAssessment(io_error, write_error) ==
    /\ state = "ProcessingRow"
    /\ doc = "assessment"
    /\ LET r == Fill(assessment_template_obj, field_values_assessment, io_error)
           written == writestr(zip_file, AssessmentPath(sheet_name, player_name), r.out)
           c == generated_pdfs_count + 1
       IN  /\ assessment_template_obj' = r.template
           /\ last_fill' = [called |-> TRUE, template |-> assessment_template_obj,
                            field_values |-> field_values_assessment, result |-> r]
           /\ st_warning' = st_warning \o r.warnings
           /\ IF r.raised THEN RowExcept(generated_pdfs_count, zip_file, r.cause)
              ELSE IF write_error THEN RowExcept(generated_pdfs_count, zip_file, "writestr")
              ELSE IF ProgressRaises(c, total_pdfs_to_generate)
              THEN RowExcept(c, written, "progress")
              ELSE /\ zip_file' = written
                   /\ generated_pdfs_count' = c
                   /\ doc' = "worksheet"
                   /\ UNCHANGED failed_items
                   /\ Report(c)
    /\ UNCHANGED <<template_files, uploaded_file, worksheet_template_obj,
                   planilhas, total_pdfs_to_generate, summary, download_button>>

\* After the loops (lines 220-240): progress 1.0, the summary, the download
\* button.
Finish ==
    /\ state = "Archiving"
    /\ progress_bar' = [num |-> 1, den |-> 1]
    /\ summary' = Summary(failed_items)
    /\ download_button' = TRUE
    /\ state' = "Done"
    /\ UNCHANGED <<template_files, uploaded_file, worksheet_template_obj,
                   assessment_template_obj, planilhas, total_pdfs_to_generate,
                   generated_pdfs_count, failed_items, zip_file, sheet_i, row_i,
                   doc, st_error, st_warning, last_fill>>

Next ==
    \/ Load
    \/ ValidateSheet
    \/ SkipRow
    \/ \E io_error \in BOOLEAN, write_error \in BOOLEAN : FillWorksheet(io_error, write_error)
    \/ \E io_error \in BOOLEAN, write_error \in BOOLEAN : FillAssessment(io_error, write_error)
    \/ Finish

Spec == Init /\ [][Next]_vars


\* ------------------------------------------- fill_and_get_pdf_bytes alone
\* The Field Value Maps given to the function on its own: every map from a
\* subset of FillKeys to FillValues, the empty map included.  "nickname" is
\* a field of no template.
FillKeys == {"name", "dob", "nickname"}
FillValues == {StrCell("Jane Doe"), IntCell(4), NaN}
FieldValueMaps == UNION {[K -> FillValues] : K \in SUBSET FillKeys}

InitFill ==
    /\ InitCommon
    /\ state = "Filling"
    /\ uploaded_file = [readable |-> FALSE, sheets |-> << >>]

\* One call of fill_and_get_pdf_bytes on a cached template.
FillCall(which, field_values, io_error) ==
    /\ state = "Filling"
    /\ LET tpl == IF which = 1 THEN worksheet_template_obj ELSE assessment_template_obj
           r == Fill(tpl, field_values, io_error)
       IN  /\ worksheet_template_obj' = IF which = 1 THEN r.template ELSE worksheet_template_obj
           /\ assessment_template_obj' = IF which = 2 THEN r.template ELSE assessment_template_obj
           /\ last_fill' = [called |-> TRUE, template |-> tpl,
                            field_values |-> field_values, result |-> r]
           /\ st_warning' = st_warning \o r.warnings
    /\ UNCHANGED <<template_files, uploaded_file, state, planilhas,
                   total_pdfs_to_generate, generated_pdfs_count, failed_items,
                   zip_file, sheet_i, row_i, doc, progress_bar, st_error,
                   summary, download_button>>

NextFill ==
    \E which \in {1, 2}, field_values \in FieldValueMaps, io_error \in BOOLEAN :
        FillCall(which, field_values, io_error)

SpecFill == InitFill /\ [][NextFill]_vars


\* ================================================================== claims
Last(q) == q[Len(q)]
Front(q) == SubSeq(q, 1, Len(q) - 1)

\* The rows the loops have completed when the run stands at the head of a
\* row, at the head of a sheet or after the loops.
RowsCompleted ==
    CASE state = "ProcessingRow" -> RowsBefore(planilhas, sheet_i - 1) + row_i - 1
      [] state = "ValidatingSheet" -> RowsBefore(planilhas, sheet_i - 1)
      [] OTHER -> TotalRows(planilhas)

\* A step that handles a row with name and number and in which neither the
\* fill nor writestr failed.
GoodFillStep ==
    /\ state = "ProcessingRow"
    /\ ~Skips(row)
    /\ last_fill'.called
    /\ ~last_fill'.result.raised
    /\ ~(Len(failed_items') > Len(failed_items) /\ Last(failed_items').cause = "writestr")

\* A step in which the per-row handler (lines 213-218) recorded a failure.
RowFailureStep ==
    /\ state = "ProcessingRow"
    /\ Len(failed_items') = Len(failed_items) + 1
    /\ Last(failed_items').kind = "error"

\* A step of the skip branch.
SkipStep ==
    /\ state = "ProcessingRow"
    /\ doc = "worksheet"
    /\ Skips(row)

\* C1: every completed row adds exactly 2 to generated_pdfs_count, whatever
\* its outcome: between rows the counter is twice the number of rows done,
\* and after the loops it is 2R.
C1_TwoPerRow ==
    (state \in {"ValidatingSheet", "Archiving", "Done"}
        \/ (state = "ProcessingRow" /\ doc = "worksheet"))
    => generated_pdfs_count = 2 * RowsCompleted

\* C2: row isolation: whatever failed in earlier rows, a row with name and
\* number whose fill and archive write succeed gets the filled document
\* appended to the archive, and after its worksheet its assessment form is
\* attempted.
C2_RowIsolation ==
    [][GoodFillStep =>
        /\ zip_file' = Append(zip_file,
              [name |-> IF doc = "worksheet"
                        THEN WorksheetPath(sheet_name, player_name)
                        ELSE AssessmentPath(sheet_name, player_name),
               data |-> last_fill'.result.out])
        /\ doc = "worksheet" => (doc' = "assessment" /\ state' = "ProcessingRow")]_vars

\* C3: the run fails only when the workbook cannot be read or a sheet lacks
\* a required column; no outcome of a row leads to Failed.
C3_FailedOnlyFatal ==
    state = "Failed" => (~uploaded_file.readable \/ st_error = "missing columns")

\* C4: when a row raises, the row leaves no entry in the archive (also when
\* its worksheet was already written), the row counts for exactly 2, one
\* error message naming the player and the sheet is appended, and the run
\* goes on.
C4_FailedRowLeavesNothing ==
    [][RowFailureStep =>
        /\ zip_file' = (IF doc = "assessment" THEN Front(zip_file) ELSE zip_file)
        /\ generated_pdfs_count' = 2 * RowsCompleted + 2
        /\ failed_items' = Append(failed_items,
              ErrorMsg(player_name, sheet_name, Last(failed_items').cause))
        /\ state' # "Failed"]_vars

\* C5: a row without name or number is skipped: nothing is cloned or filled,
\* the archive is unchanged, one skip message is appended, the counter
\* advances by 2 and the run goes on to the next row.
C5_SkipRow ==
    [][SkipStep =>
        /\ last_fill' = last_fill
        /\ worksheet_template_obj' = worksheet_template_obj
        /\ assessment_template_obj' = assessment_template_obj
        /\ zip_file' = zip_file
        /\ failed_items' = Append(failed_items, SkipMsg(row_i - 1, player_name, sheet_name))
        /\ generated_pdfs_count' = generated_pdfs_count + 2
        /\ state' # "Failed"]_vars


\* A sheet in which one of the seven required columns is absent.
LacksColumn(df) ==
    {"number", "proposed-class", "name", "country", "date", "competition", "dob"}
        \ df.columns # {}

\* C6: a sheet that lacks a required column aborts the batch wherever it
\* stands: none of its rows is processed, no later sheet is reached, the run
\* never archives or offers the download, and validating it ends the run.
C6_MissingColumnAborts ==
    /\ [](\A i \in 1..Len(planilhas) :
            LacksColumn(planilhas[i]) =>
                /\ sheet_i <= i
                /\ sheet_i = i => (state \in {"ValidatingSheet", "Failed"} /\ row_i = 0)
                /\ state \notin {"Archiving", "Done"}
                /\ ~download_button
                /\ summary = NoSummary)
    /\ [][(state = "ValidatingSheet" /\ LacksColumn(sheet)) =>
            (state' = "Failed" /\ st_error' = "missing columns"
             /\ zip_file' = zip_file /\ failed_items' = failed_items
             /\ generated_pdfs_count' = generated_pdfs_count)]_vars

\* Witness of C6: the second sheet lacks a column and stopped the run after
\* the rows of the first sheet had produced archive entries.
C6_Witness ==
    /\ state = "Failed"
    /\ st_error = "missing columns"
    /\ sheet_i = 2
    /\ LacksColumn(planilhas[2])
    /\ Len(planilhas[2].rows) > 0
    /\ Len(zip_file) >= 2

\* The document a fill returned.
FillOut == open(last_fill.result.out)
FillReturned == last_fill.called /\ ~last_fill.result.raised

\* C7: fills never change the cached templates: after any calls, raising or
\* not, both hold the field values of the template files, and a returned
\* document holds, outside the keys of its own map, only the values the
\* template file had (nothing an earlier call wrote).
C7_TemplatesUntouched ==
    /\ worksheet_template_obj = template_files[1]
    /\ assessment_template_obj = template_files[2]
    /\ FillReturned =>
         \E file \in {template_files[1], template_files[2]} :
            /\ last_fill.template = file
            /\ DOMAIN FillOut.V = DOMAIN file.V
            /\ \A f \in DOMAIN file.V :
                  f \notin DOMAIN last_fill.field_values => FillOut.V[f] = file.V[f]

\* Witness of C7: a call returned a document in which it wrote one field
\* and left another.
C7_Witness ==
    /\ FillReturned
    /\ \E f \in DOMAIN FillOut.V : FillOut.V[f] # Blank
    /\ \E f \in DOMAIN FillOut.V : f \notin DOMAIN last_fill.field_values

\* C8: selective mutation: the returned document has the fields of the
\* pre-fill copy; each one that is a key of the map holds the text of the
\* mapped value, each other one the value and appearance it had.
C8_SelectiveMutation ==
    FillReturned =>
        /\ DOMAIN FillOut.V = DOMAIN last_fill.template.V
        /\ \A f \in DOMAIN FillOut.V :
              FillOut.V[f] = IF f \in DOMAIN last_fill.field_values
                             THEN str(last_fill.field_values[f])
                             ELSE last_fill.template.V[f]

\* Witness of C8: a map with two keys that are fields, one of them mapped
\* to a number, filled into a form that has a third field.
C8_Witness ==
    /\ FillReturned
    /\ Cardinality(DOMAIN last_fill.field_values \cap DOMAIN FillOut.V) >= 2
    /\ \E f \in DOMAIN FillOut.V : f \notin DOMAIN last_fill.field_values
    /\ \E f \in DOMAIN last_fill.field_values :
          f \in DOMAIN FillOut.V /\ last_fill.field_values[f] = IntCell(4)
                                 /\ FillOut.V[f] = "4"

\* The keys of the last call's map that are no field of the document.
UnmatchedKeys == DOMAIN last_fill.field_values \ DOMAIN last_fill.template.V

C10_NeedAppearances ==
    FillReturned => (FillOut.AcroForm /\ FillOut.NeedAppearances)

\* Witness of C10: the flag set by a fill with the empty map on a template
\* that did not have it.
C10_Witness ==
    /\ FillReturned
    /\ last_fill.field_values = << >>
    /\ ~last_fill.template.NeedAppearances
    /\ FillOut.NeedAppearances


\* The fields the last call wrote: the keys of its map that are fields.
WrittenFields == DOMAIN last_fill.field_values \cap DOMAIN last_fill.template.V

FillableRows ==
    UNION {{<<planilhas[i].sheet_name, str(planilhas[i].rows[r]["name"])>> :
              r \in {q \in 1..Len(planilhas[i].rows) :
                        /\ planilhas[i].rows[q]["name"].t # "nan"
                        /\ planilhas[i].rows[q]["number"].t # "nan"}} :
           i \in {j \in 1..Len(planilhas) : ~LacksColumn(planilhas[j])}}

\* The entries of the archive that belong to completed rows: all of them,
\* but for the worksheet of the row in hand while its assessment form is due.
SettledEntries ==
    IF state = "ProcessingRow" /\ doc = "assessment" THEN Len(zip_file) - 1 ELSE Len(zip_file)

\* C12: the archive holds exactly two entries for every row that has name
\* and number and whose two fills succeeded, the worksheet path and then the
\* assessment path of the row's sheet and name, and no other entry: between
\* rows it is a sequence of such pairs, and a step in which a fill and its
\* write succeed appends the entry of that name.
C12_TwoNamedEntriesPerRow ==
    /\ [](/\ SettledEntries % 2 = 0
          /\ \A k \in 1..(SettledEntries \div 2) :
                \E p \in FillableRows :
                   /\ zip_file[2 * k - 1].name = WorksheetPath(p[1], p[2])
                   /\ zip_file[2 * k].name = AssessmentPath(p[1], p[2]))
    /\ [][GoodFillStep =>
            /\ Len(zip_file') = Len(zip_file) + 1
            /\ Last(zip_file').data = last_fill'.result.out
            /\ Last(zip_file').name =
                  (IF doc = "worksheet"
                   THEN sheet_name \o "/Stages 2C and 3/" \o str(row["name"])
                           \o "-Worksheet-Stages-2C-and-3.pdf"
                   ELSE sheet_name \o "/Stages 2AB/" \o str(row["name"])
                           \o "-Assessment-Form-Stages-2AB.pdf")]_vars


\* C13: the archive is append-only: a step leaves every entry where it was,
\* with its name and bytes, and adds at most one at the end; the archive
\* holds one entry for every write that was counted (the counter moves by 1
\* for a write and by 2 for a recorded skip or failure), so rows of one
\* sheet with the same player name have their own entries.
C13_AppendOnly ==
    /\ [](Len(zip_file) = generated_pdfs_count - 2 * Len(failed_items))
    /\ [][/\ Len(zip_file') \in {Len(zip_file), Len(zip_file) + 1}
          /\ SubSeq(zip_file', 1, Len(zip_file)) = zip_file]_vars

\* Witness of C13: two rows of one sheet with the same name went through,
\* and the archive holds the two entries of each, the names twice.
C13_Witness ==
    /\ Len(zip_file) = 4
    /\ zip_file[1].name = zip_file[3].name
    /\ zip_file[2].name = zip_file[4].name
    /\ zip_file[1].name # zip_file[2].name
    /\ row_i >= 2
    /\ state \in {"ProcessingRow", "Archiving", "Done"}


\* The text the claim gives a date cell: DD-MM-YYYY of the date, a text
\* "DD/MM/YYYY" read as it is written, anything else as its raw text.
DayMonthYear(c) ==
    CASE c.t = "ts" -> D2(c.p1) \o "-" \o D2(c.p2) \o "-" \o D4(c.y)
      [] c.t = "text" -> D2(c.p1) \o "-" \o D2(c.p2) \o "-" \o D4(c.y)
      [] OTHER -> str(c)

\* C14: in a step that fills a document for a row, the fields date, xdate
\* and dob of the returned document hold DD-MM-YYYY of the row's date and
\* dob cells (raw text when the cell is no date): date "01/02/2024" gives
\* "01-02-2024", dob "05/10/1995" gives "05-10-1995".
C14_DatesDayMonthYear ==
    [][GoodFillStep =>
        \A f \in {"date", "xdate", "dob"} :
            (f \in DOMAIN last_fill'.field_values
                /\ f \in DOMAIN open(last_fill'.result.out).V) =>
            open(last_fill'.result.out).V[f] =
                DayMonthYear(row[IF f = "dob" THEN "dob" ELSE "date"])]_vars


\* --------------------------------------------------- the result summary alone
\* The failure lists given to the summary on its own: up to MaxFailures
\* messages, skips and errors.
FailureLists ==
    SeqsUpTo({SkipMsg(0, "nan", "Team A"), ErrorMsg("Jane Doe", "Team A", "io")},
             MaxFailures)

\* The run at the end of the loops (line 220) with a failure list of any
\* length.
InitSummary ==
    /\ template_files \in {t \in TemplatePairs : t[2] # NoForm}
    /\ worksheet_template_obj = template_files[1]
    /\ assessment_template_obj = template_files[2]
    /\ uploaded_file = [readable |-> TRUE, sheets |-> << >>]
    /\ planilhas = << >>
    /\ state = "Archiving"
    /\ failed_items \in FailureLists
    /\ total_pdfs_to_generate = 2 * Len(failed_items)
    /\ generated_pdfs_count = 2 * Len(failed_items)
    /\ zip_file = << >>
    /\ sheet_i = 0
    /\ row_i = 0
    /\ doc = "worksheet"
    /\ progress_bar = [num |-> generated_pdfs_count, den |-> total_pdfs_to_generate]
    /\ st_error = "none"
    /\ st_warning = << >>
    /\ summary = NoSummary
    /\ download_button = FALSE
    /\ last_fill = NoFill

SpecSummary == InitSummary /\ [][Finish]_vars

\* C15: the summary reports success exactly when the failure list is empty;
\* it gives the number n of messages, shows the first min(5, n) of them in
\* the order of the list, and gives the overflow n - 5 exactly when n > 5.
C15_Summary ==
    summary.shown =>
        LET n == Len(failed_items) IN
        /\ summary.success <=> (n = 0)
        /\ summary.count = n
        /\ Len(summary.messages) = (IF n <= 5 THEN n ELSE 5)
        /\ \A i \in 1..Len(summary.messages) : summary.messages[i] = failed_items[i]
        /\ (summary.overflow # 0) <=> (n > 5)
        /\ n > 5 => summary.overflow = n - 5

\* Witness of C15: a summary of six messages, five shown and one more
\* announced.
C15_Witness ==
    /\ summary.shown
    /\ Len(failed_items) = 6
    /\ Len(summary.messages) = 5
    /\ summary.overflow = 1
    /\ ~summary.success


\* A step in which fill_and_get_pdf_bytes was called for a row on a template
\* without a form root, and its copy of the template could be made.
NoFormFillStep ==
    /\ state = "ProcessingRow"
    /\ ~Skips(row)
    /\ last_fill'.called
    /\ ~last_fill'.template.AcroForm
    /\ last_fill'.result.cause # "io"
    /\ Len(failed_items') > Len(failed_items)

\* C16: a fill of a document without a form root raises and returns nothing:
\* no form root is created, nothing is written to the archive; the run
\* records it as the failure of that row and goes on, it does not fail.
C16_NoFormIsRowFailure ==
    [][NoFormFillStep =>
        /\ last_fill'.result.raised
        /\ ~open(last_fill'.result.out).AcroForm
        /\ zip_file' = zip_file
        /\ failed_items' = Append(failed_items,
              ErrorMsg(player_name, sheet_name, "no AcroForm"))
        /\ state' # "Failed"]_vars


\* C17: the denominator of the progress reports is computed once, before the
\* first row, as twice the number of rows of all sheets, and never changes;
\* the count handed to a progress report is above 0 and at most that total.
C17_ProgressInRange ==
    /\ [](state \in {"ValidatingSheet", "ProcessingRow", "Archiving", "Done"}
            => total_pdfs_to_generate = 2 * TotalRows(planilhas))
    /\ [][state # "Idle" => total_pdfs_to_generate' = total_pdfs_to_generate]_vars
    /\ [][generated_pdfs_count' # generated_pdfs_count
            => /\ 0 < generated_pdfs_count'
               /\ generated_pdfs_count' <= total_pdfs_to_generate']_vars


\* C18: between rows, the failure list holds one message for every row that
\* was skipped or failed and none for a row with both documents produced,
\* and the archive two entries for every other row: the archive has an even
\* number of entries, and messages and pairs of entries add up to the rows
\* done.  Every message is appended for the row in hand, so the list is in
\* processing order, and a row whose second document is produced gets none.
C18_FailureListAndArchive ==
    /\ []((state \in {"ValidatingSheet", "Archiving", "Done"}
             \/ (state = "ProcessingRow" /\ doc = "worksheet"))
          => /\ Len(zip_file) % 2 = 0
             /\ Len(failed_items) + Len(zip_file) \div 2 = RowsCompleted)
    /\ [][failed_items' # failed_items
            => /\ state = "ProcessingRow"
               /\ Len(failed_items') = Len(failed_items) + 1
               /\ Front(failed_items') = failed_items
               /\ Last(failed_items').name = player_name
               /\ Last(failed_items').sheet = sheet_name
               /\ Last(failed_items').kind = IF Skips(row) THEN "skip" ELSE "error"]_vars
    /\ [][(GoodFillStep /\ doc = "assessment") => failed_items' = failed_items]_vars



\* ------------------------------------------------------ the run, to its end
\* The uploads and templates of the runs followed to their end: rows that
\* are filled (Jane) or skipped (NoName; a row without number takes the same
\* branch of line 165), and the template pair with every field (a fill that
\* raises is the environment's io_error; the other pairs differ in the
\* values written and in the cause of the failure).
InitLive ==
    /\ Init
    /\ template_files[1].NeedAppearances = FALSE
    /\ template_files[2].AcroForm
    /\ \A i \in 1..Len(uploaded_file.sheets) :
          \A r \in 1..Len(uploaded_file.sheets[i].rows) :
             ~isna(uploaded_file.sheets[i].rows[r]["number"])

\* The script runs in one thread and is not interrupted: a run that can take
\* a step takes it.
SpecLive == InitLive /\ [][Next]_vars /\ WF_vars(Next)

\* The rows the loops have begun: those of the sheets before the sheet in
\* hand, and those of that sheet up to the row in hand.
RowsBegun == RowsBefore(planilhas, sheet_i - 1) + row_i

\* C19: rows are handled one at a time, in the order of the sheets and, in a
\* sheet, of its rows: the number of rows begun grows by one at a time, a
\* row begins at its worksheet, is left only once it has been skipped, has
\* failed, or has had its second document attempted, and is not begun
\* again; a run that comes to its end without an error has begun every row;
\* and every run ends in Done or Failed.
C19_InOrderAndTerminates ==
    /\ [][state # "Idle" =>
            /\ RowsBegun' \in {RowsBegun, RowsBegun + 1}
            /\ sheet_i' \in {sheet_i, sheet_i + 1}
            /\ (RowsBegun' = RowsBegun + 1 => doc' = "worksheet")]_vars
    /\ [][(state = "ProcessingRow" /\ state' # "Failed"
              /\ (state' # "ProcessingRow" \/ RowsBegun' # RowsBegun))
            => \/ isna(row["name"]) \/ isna(row["number"])
               \/ Len(failed_items') = Len(failed_items) + 1
               \/ doc = "assessment"]_vars
    /\ [][(state = "ProcessingRow" /\ doc = "assessment")
            => \/ state' # "ProcessingRow"
               \/ RowsBegun' = RowsBegun + 1]_vars
    /\ [](state \in {"Archiving", "Done"} => RowsBegun = TotalRows(planilhas))
    /\ <>(state \in {"Done", "Failed"})

\* A run over two sheets and three rows that ended in Done with a row
\* recorded as failed or skipped and two documents of another in the archive.
C19_Witness ==
    /\ state = "Done"
    /\ Len(planilhas) = 2
    /\ TotalRows(planilhas) = 3
    /\ Len(failed_items) >= 1
    /\ Len(zip_file) >= 2

====
